---- MODULE Spec2Model ----
(***************************************************************************)
(* The useBankDetails hook (src/src/hooks/useBankDetails.tsx) as a state   *)
(* machine: the hook's React state, the bank_details table it talks to,    *)
(* and the asynchronous invocations of fetchBankDetails, saveBankDetails   *)
(* and deleteBankDetails, each suspended at its pending remote request.    *)
(* A request is applied to the table in one step (ServerExec) and its      *)
(* answer resumes the suspended invocation in a later step, so requests of *)
(* overlapping invocations interleave in every order.                      *)
(***************************************************************************)
EXTENDS Integers, Sequences, FiniteSets, TLC

\* ---- bounds of the model
MaxInFlight == 2      \* invocations suspended at a remote request at one time
MaxCalls == 4         \* calls the component makes (prop changes included)
NumForms == 1         \* distinct form submissions

\* ---- values
Users == {"A", "B"}
NoUser == ""
Slots == 1..MaxInFlight

\* BankFormValues: four opaque strings, here four distinct numbers per form
Forms ==
  {[accountName |-> 10 * v + 1, accountNumber |-> 10 * v + 2,
    routingNumber |-> 10 * v + 3, bankName |-> 10 * v + 4] : v \in 1..NumForms}

NoForm == [accountName |-> 0, accountNumber |-> 0, routingNumber |-> 0, bankName |-> 0]

\* null, in the shape of a BankDetails row (ids of real rows start at 1)
Null ==
  [id |-> 0, user_id |-> NoUser, account_name |-> 0, account_number |-> 0,
   routing_number |-> 0, bank_name |-> 0, use_for_both |-> FALSE]

VARIABLES
  userId,        \* the hook's userId prop
  bankDetails,   \* useState<BankDetails | null>
  isProcessing,  \* useState(false)
  useForBoth,    \* useState(false)
  remote,        \* the rows of table bank_details
  nextId,        \* the id the table gives the next inserted row
  ops,           \* per slot: the invocation suspended there, or idle
  ret,           \* what the step just taken returned to its caller, if it returned
  toasts,        \* the notifications the step just taken emitted
  called,        \* how many calls the component has made
  overlapped     \* history: the users for whom two save invocations have overlapped

vars == <<userId, bankDetails, isProcessing, useForBoth, remote, nextId, ops, ret,
          toasts, called, overlapped>>

local == <<bankDetails, isProcessing, useForBoth>>

\* mutant: account number and routing number change places
BankPayloadSwapped(formData, ufb) ==
  [account_name |-> formData.accountName,
   account_number |-> formData.routingNumber,
   routing_number |-> formData.accountNumber,
   bank_name |-> formData.bankName,
   use_for_both |-> ufb]

\* ---- the payload of a save (lines 82-88)
BankPayload(formData, ufb) ==
  [account_name |-> formData.accountName,
   account_number |-> formData.accountNumber,
   routing_number |-> formData.routingNumber,
   bank_name |-> formData.bankName,
   use_for_both |-> ufb]

Row(id, uid, p) ==
  [id |-> id, user_id |-> uid, account_name |-> p.account_name,
   account_number |-> p.account_number, routing_number |-> p.routing_number,
   bank_name |-> p.bank_name, use_for_both |-> p.use_for_both]

OwnedBy(rows, uid) == {r \in rows : r.user_id = uid}

\* ---- the table's four operations
\* .select().eq("user_id", uid).maybeSingle(): the row, null when there is none,
\* and the PGRST116 error (data null) when several rows match
SelectByUser(rows, uid) ==
  LET m == OwnedBy(rows, uid)
  IN  IF m = {} THEN [status |-> "ok", data |-> Null]
      ELSE IF Cardinality(m) = 1 THEN [status |-> "ok", data |-> CHOOSE r \in m : TRUE]
      ELSE [status |-> "PGRST116", data |-> Null]

\* .select("id"): only the id column comes back
SelectIdByUser(rows, uid) ==
  LET a == SelectByUser(rows, uid)
  IN  [a EXCEPT !.data = [Null EXCEPT !.id = a.data.id]]

\* mutant: the new row is not tagged with the user
InsertRowUntagged(rows, id, uid, p) == rows \cup {Row(id, NoUser, p)}

InsertRow(rows, id, uid, p) == rows \cup {Row(id, uid, p)}

\* mutant: the update leaves the use_for_both column as it was
UpdateRowKeepsFlag(rows, id, uid, p) ==
  {IF r.id = id /\ r.user_id = uid
     THEN Row(r.id, r.user_id, [p EXCEPT !.use_for_both = r.use_for_both])
     ELSE r : r \in rows}

UpdateRow(rows, id, uid, p) ==
  {IF r.id = id /\ r.user_id = uid THEN Row(r.id, r.user_id, p) ELSE r : r \in rows}

\* mutant: the delete is scoped by the record id alone
DeleteRowByIdOnly(rows, id, uid) == {r \in rows : r.id # id}

DeleteRow(rows, id, uid) == {r \in rows : ~(r.id = id /\ r.user_id = uid)}

\* ---- invocations
\* kind: which function is suspended; req: the request it awaits; pc: "sent" until
\* the table has answered, then "answered"; uid, form, ufb, recId: the values the
\* invocation closed over; payload, recId: what its write request carries and the
\* id its update or delete is scoped by;
\* status, data: the answer; calls: the requests the invocation issued so far;
\* history of a save, kept by the re-fetch it triggers: fresh, the lookup was
\* answered when uid owned no row; wrote, wid: the write applied and the id of the
\* row written; clean: since that write, the row written is the only row uid owns
\* and no other request has changed the table.
IdleOp ==
  [kind |-> "idle", req |-> "none", pc |-> "none", uid |-> NoUser, form |-> NoForm,
   ufb |-> FALSE, payload |-> Null, recId |-> 0, status |-> "none", data |-> Null,
   calls |-> <<>>,
   wrote |-> "none", wid |-> 0, fresh |-> FALSE, clean |-> FALSE]

Call(verb, id, uid) == [verb |-> verb, id |-> id, user_id |-> uid]

NoRet == [op |-> "none", value |-> "none", calls |-> <<>>]
Ret(op, value, calls) == [op |-> op, value |-> value, calls |-> calls]

FreeSlots == {i \in Slots : ops[i].kind = "idle"}

LeastFree == CHOOSE i \in FreeSlots : \A j \in FreeSlots : i <= j

\* the select a fetch for uid issues (lines 27-31)
FetchOp(uid) ==
  [IdleOp EXCEPT !.kind = "fetch", !.req = "select", !.pc = "sent", !.uid = uid,
                 !.calls = <<Call("select", 0, uid)>>]

\* one more call of the component
Called ==
  /\ called < MaxCalls
  /\ called' = called + 1

Failed(o) == o.status \in {"error", "thrown"}

\* ---- the table answers the request of slot i: applied (ok), refused with an
\* error value, or the request throws; a failed request leaves the table alone
Applied(o) ==
  CASE o.req = "select" ->
         LET a == SelectByUser(remote, o.uid)
         IN  [rows |-> remote, op |-> [o EXCEPT !.status = a.status, !.data = a.data]]
    [] o.req = "lookup" ->
         LET a == SelectIdByUser(remote, o.uid)
         IN  [rows |-> remote,
              op |-> [o EXCEPT !.status = a.status, !.data = a.data,
                               !.fresh = (OwnedBy(remote, o.uid) = {})]]
    [] o.req = "insert" ->
         [rows |-> InsertRow(remote, nextId, o.uid, o.payload),
          op |-> [o EXCEPT !.status = "ok", !.wrote = "insert", !.wid = nextId,
                           !.clean = (OwnedBy(remote, o.uid) = {})]]
    [] o.req = "update" ->
         [rows |-> UpdateRow(remote, o.recId, o.uid, o.payload),
          op |-> [o EXCEPT !.status = "ok", !.wrote = "update", !.wid = o.recId,
                           !.clean = (\A r \in OwnedBy(remote, o.uid) : r.id = o.recId)
                                     /\ OwnedBy(remote, o.uid) # {}]]
    [] o.req = "delete" ->
         [rows |-> DeleteRow(remote, o.recId, o.uid), op |-> [o EXCEPT !.status = "ok"]]

ServerExec(i) ==
  /\ UNCHANGED <<called, overlapped>>
  /\ ops[i].pc = "sent"
  /\ \E outcome \in {"ok", "error", "thrown"} :
       LET a == IF outcome = "ok" THEN Applied(ops[i])
                ELSE [rows |-> remote, op |-> [ops[i] EXCEPT !.status = outcome]]
       IN  /\ remote' = a.rows
           /\ nextId' = IF outcome = "ok" /\ ops[i].req = "insert" THEN nextId + 1 ELSE nextId
           /\ ops' = [j \in Slots |->
                        IF j = i THEN [a.op EXCEPT !.pc = "answered"]
                        ELSE IF a.rows # remote /\ ~(ops[j].kind = "fetch" /\ ops[j].pc = "answered")
                             THEN [ops[j] EXCEPT !.clean = FALSE]
                        ELSE ops[j]]
  /\ ret' = NoRet
  /\ toasts' = <<>>
  /\ UNCHANGED <<userId, local>>

\* mutant: the effect fetches for a non-empty userId and does nothing otherwise
useEffectNoReset(u) ==
  /\ Called
  /\ u # userId
  /\ userId' = u
  /\ IF u # NoUser
       THEN /\ FreeSlots # {}
            /\ ops' = [ops EXCEPT ![LeastFree] = FetchOp(u)]
       ELSE UNCHANGED ops
  /\ ret' = NoRet
  /\ toasts' = <<>>
  /\ UNCHANGED <<bankDetails, useForBoth, isProcessing, remote, nextId, overlapped>>

\* ---- useEffect(..., [userId]): the prop changes to u (lines 175-183)
useEffect(u) ==
  /\ Called
  /\ u # userId
  /\ userId' = u
  /\ IF u # NoUser
       THEN /\ FreeSlots # {}
            /\ ops' = [ops EXCEPT ![LeastFree] = FetchOp(u)]
            /\ UNCHANGED <<bankDetails, useForBoth>>
       ELSE /\ bankDetails' = Null
            /\ useForBoth' = FALSE
            /\ UNCHANGED ops
  /\ ret' = NoRet
  /\ toasts' = <<>>
  /\ UNCHANGED <<isProcessing, remote, nextId, overlapped>>

\* ---- setUseForBoth(b), returned to the caller (line 189)
setUseForBoth(b) ==
  /\ Called
  /\ b # useForBoth
  /\ useForBoth' = b
  /\ ret' = NoRet
  /\ toasts' = <<>>
  /\ UNCHANGED <<userId, bankDetails, isProcessing, remote, nextId, ops, overlapped>>

\* ---- fetchBankDetails() called by the component (lines 21-31)
fetchBankDetails ==
  /\ Called
  /\ IF userId = NoUser
       THEN /\ ret' = Ret("fetch", "undefined", <<>>)
            /\ UNCHANGED ops
       ELSE /\ FreeSlots # {}
            /\ ops' = [ops EXCEPT ![LeastFree] = FetchOp(userId)]
            /\ ret' = NoRet
  /\ toasts' = <<>>
  /\ UNCHANGED <<userId, local, remote, nextId, overlapped>>

\* mutant: a failed select clears the local state
fetchFailedClears ==
  /\ toasts' = <<"destructive">>
  /\ bankDetails' = Null
  /\ useForBoth' = FALSE

\* the select failed: the error branch and the catch block (lines 33-41, 53-60)
fetchFailed ==
  /\ toasts' = <<"destructive">>
  /\ UNCHANGED <<bankDetails, useForBoth>>

\* the select answered with data, or with null (lines 45-52)
fetchLoaded(data) ==
  /\ toasts' = <<>>
  /\ IF data # Null
       THEN bankDetails' = data /\ useForBoth' = data.use_for_both
       ELSE bankDetails' = Null /\ useForBoth' = FALSE

\* ---- fetchBankDetails resumes with the select's answer (lines 33-60)
fetchResume(i) ==
  LET o == ops[i]
  IN  /\ o.kind = "fetch" /\ o.pc = "answered"
      /\ IF Failed(o) THEN fetchFailed ELSE fetchLoaded(o.data)
      /\ ops' = [ops EXCEPT ![i] = IdleOp]
      /\ ret' = Ret("fetch", "undefined", o.calls)
      /\ UNCHANGED <<called, overlapped, userId, isProcessing, remote, nextId>>

\* ---- saveBankDetails(formData) called by the component (lines 64-75)
saveBankDetails(formData) ==
  /\ Called
  /\ IF userId = NoUser
       THEN /\ ret' = Ret("save", "false", <<>>)
            /\ UNCHANGED <<isProcessing, ops, overlapped>>
       ELSE /\ FreeSlots # {}
            /\ isProcessing' = TRUE
            /\ ops' = [ops EXCEPT ![LeastFree] =
                         [IdleOp EXCEPT !.kind = "save", !.req = "lookup", !.pc = "sent",
                                        !.uid = userId, !.form = formData, !.ufb = useForBoth,
                                        !.calls = <<Call("lookup", 0, userId)>>]]
            /\ overlapped' = IF \E j \in Slots : ops[j].kind = "save" /\ ops[j].uid = userId
                               THEN overlapped \cup {userId}
                               ELSE overlapped
            /\ ret' = NoRet
  /\ toasts' = <<>>
  /\ UNCHANGED <<userId, bankDetails, useForBoth, remote, nextId>>

\* mutant: no finally block, isProcessing stays set
saveCatchNoFinally(i) ==
  /\ toasts' = <<"destructive">>
  /\ ret' = Ret("save", "false", ops[i].calls)
  /\ UNCHANGED isProcessing
  /\ ops' = [ops EXCEPT ![i] = IdleOp]

\* mutant: a failed save re-fetches all the same
saveCatchRefetches(i) ==
  /\ toasts' = <<"destructive">>
  /\ ret' = Ret("save", "false", ops[i].calls)
  /\ isProcessing' = FALSE
  /\ ops' = [ops EXCEPT ![i] = FetchOp(ops[i].uid)]

\* the catch and finally blocks of saveBankDetails (lines 124-134)
saveCatch(i) ==
  /\ toasts' = <<"destructive">>
  /\ ret' = Ret("save", "false", ops[i].calls)
  /\ isProcessing' = FALSE
  /\ ops' = [ops EXCEPT ![i] = IdleOp]

\* mutant: the save inserts whatever the lookup answered
saveLookupResumeAlwaysInserts(i) ==
  LET o == ops[i]
      p == BankPayload(o.form, o.ufb)
  IN  /\ o.kind = "save" /\ o.req = "lookup" /\ o.pc = "answered"
      /\ IF Failed(o)
           THEN saveCatch(i)
           ELSE /\ ops' = [ops EXCEPT ![i] =
                             [o EXCEPT !.req = "insert", !.pc = "sent", !.status = "none",
                                       !.payload = p,
                                       !.calls = Append(@, Call("insert", 0, o.uid))]]
                /\ ret' = NoRet
                /\ toasts' = <<>>
                /\ UNCHANGED isProcessing
      /\ UNCHANGED <<called, overlapped, userId, bankDetails, useForBoth, remote, nextId>>

\* ---- saveBankDetails resumes with the lookup's answer (lines 77-111)
saveLookupResume(i) ==
  LET o == ops[i]
      p == BankPayload(o.form, o.ufb)
  IN  /\ o.kind = "save" /\ o.req = "lookup" /\ o.pc = "answered"
      /\ IF Failed(o)
           THEN saveCatch(i)
           ELSE /\ ops' = [ops EXCEPT ![i] =
                    IF o.data.id # 0
                      THEN [o EXCEPT !.req = "update", !.pc = "sent", !.status = "none",
                                     !.payload = p, !.recId = o.data.id,
                                     !.calls = Append(@, Call("update", o.data.id, o.uid))]
                      ELSE [o EXCEPT !.req = "insert", !.pc = "sent", !.status = "none",
                                     !.payload = p,
                                     !.calls = Append(@, Call("insert", 0, o.uid))]]
                /\ ret' = NoRet
                /\ toasts' = <<>>
                /\ UNCHANGED isProcessing
      /\ UNCHANGED <<called, overlapped, userId, bankDetails, useForBoth, remote, nextId>>

\* ---- saveBankDetails resumes with the write's answer (lines 113-134)
saveWriteResume(i) ==
  LET o == ops[i]
  IN  /\ o.kind = "save" /\ o.req \in {"insert", "update"} /\ o.pc = "answered"
      /\ IF Failed(o)
           THEN saveCatch(i)
           ELSE /\ toasts' = <<"default">>
                /\ ops' = [ops EXCEPT ![i] =
                             [FetchOp(o.uid) EXCEPT !.form = o.form, !.ufb = o.ufb,
                                                    !.wrote = o.wrote, !.wid = o.wid,
                                                    !.fresh = o.fresh, !.clean = o.clean]]
                /\ ret' = Ret("save", "true", Append(o.calls, Call("select", 0, o.uid)))
                /\ isProcessing' = FALSE
      /\ UNCHANGED <<called, overlapped, userId, bankDetails, useForBoth, remote, nextId>>

\* mutant: the guard tests the userId alone
deleteBankDetailsNoIdCheck ==
  /\ Called
  /\ IF userId = NoUser
       THEN /\ ret' = Ret("delete", "false", <<>>)
            /\ UNCHANGED <<isProcessing, ops>>
       ELSE /\ FreeSlots # {}
            /\ isProcessing' = TRUE
            /\ ops' = [ops EXCEPT ![LeastFree] =
                         [IdleOp EXCEPT !.kind = "delete", !.req = "delete", !.pc = "sent",
                                        !.uid = userId, !.recId = bankDetails.id,
                                        !.calls = <<Call("delete", bankDetails.id, userId)>>]]
            /\ ret' = NoRet
  /\ toasts' = <<>>
  /\ UNCHANGED <<userId, bankDetails, useForBoth, remote, nextId, overlapped>>

\* ---- deleteBankDetails() called by the component (lines 138-148)
deleteBankDetails ==
  /\ Called
  /\ IF userId = NoUser \/ bankDetails.id = 0
       THEN /\ ret' = Ret("delete", "false", <<>>)
            /\ UNCHANGED <<isProcessing, ops>>
       ELSE /\ FreeSlots # {}
            /\ isProcessing' = TRUE
            /\ ops' = [ops EXCEPT ![LeastFree] =
                         [IdleOp EXCEPT !.kind = "delete", !.req = "delete", !.pc = "sent",
                                        !.uid = userId, !.recId = bankDetails.id,
                                        !.calls = <<Call("delete", bankDetails.id, userId)>>]]
            /\ ret' = NoRet
  /\ toasts' = <<>>
  /\ UNCHANGED <<userId, bankDetails, useForBoth, remote, nextId, overlapped>>

\* mutant: the flag is left as it was
deleteClearedKeepsFlag ==
  /\ bankDetails' = Null
  /\ UNCHANGED useForBoth

\* the delete succeeded: local state is cleared, no re-fetch (lines 158-159)
deleteCleared ==
  /\ bankDetails' = Null
  /\ useForBoth' = FALSE

\* ---- deleteBankDetails resumes with the delete's answer (lines 150-171)
deleteResume(i) ==
  LET o == ops[i]
  IN  /\ o.kind = "delete" /\ o.pc = "answered"
      /\ IF Failed(o)
           THEN /\ toasts' = <<"destructive">>
                /\ ret' = Ret("delete", "false", o.calls)
                /\ UNCHANGED <<bankDetails, useForBoth>>
           ELSE /\ toasts' = <<"default">>
                /\ ret' = Ret("delete", "true", o.calls)
                /\ deleteCleared
      /\ isProcessing' = FALSE
      /\ ops' = [ops EXCEPT ![i] = IdleOp]
      /\ UNCHANGED <<called, overlapped, userId, remote, nextId>>

\* ---- the hook after its first render and effect, for any userId prop
\* (lines 15-17, 175-183), and an empty table
Init ==
  /\ userId \in Users \cup {NoUser}
  /\ bankDetails = Null
  /\ isProcessing = FALSE
  /\ useForBoth = FALSE
  /\ remote = {}
  /\ nextId = 1
  /\ ops = [i \in Slots |-> IF i = 1 /\ userId # NoUser THEN FetchOp(userId) ELSE IdleOp]
  /\ ret = NoRet
  /\ toasts = <<>>
  /\ called = 0
  /\ overlapped = {}

Next ==
  \/ \E u \in Users \cup {NoUser} : useEffect(u)
  \/ \E b \in BOOLEAN : setUseForBoth(b)
  \/ fetchBankDetails
  \/ \E f \in Forms : saveBankDetails(f)
  \/ deleteBankDetails
  \/ \E i \in Slots : ServerExec(i)
  \/ \E i \in Slots : fetchResume(i)
  \/ \E i \in Slots : saveLookupResume(i)
  \/ \E i \in Slots : saveWriteResume(i)
  \/ \E i \in Slots : deleteResume(i)

\* every identity, switches of identity included
Spec == Init /\ [][Next]_vars

\* ----------------------------------------------------------------------
\* Properties
\* ----------------------------------------------------------------------

\* the table applies the request of slot i in this step
Executed(i) == ops[i].pc = "sent" /\ ops'[i].pc = "answered"

\* the invocation of slot i resumes with its answer in this step
Resumed(i) == ops[i].pc = "answered" /\ ops'[i].pc # "answered"

Quiescent == \A i \in Slots : ops[i].kind = "idle"

\* C1: once no fetch for the active userId is pending (the fetch its switch
\* triggered has resolved), bankDetails never holds a record owned by another user.
C1_NoForeignRecord ==
  (userId # NoUser /\ ~\E i \in Slots : ops[i].kind = "fetch" /\ ops[i].uid = userId)
    => bankDetails.user_id \in {NoUser, userId}

\* C2: when every invoked operation has completed, bankDetails is the row the
\* table holds for the current userId, or null when it holds none.
C2_LocalMirrorsRemote ==
  Quiescent =>
    IF OwnedBy(remote, userId) = {} THEN bankDetails = Null
    ELSE bankDetails \in OwnedBy(remote, userId)

\* C3: every update and delete is scoped by a record id and the invoking
\* userId, so a step changes or removes a row only by applying an update or a
\* delete that carries this row's id and was invoked under this row's user_id.
C3_ScopedWrites ==
  [][\A r \in remote :
       r \notin remote' =>
         \E i \in Slots :
           /\ Executed(i)
           /\ ops[i].req \in {"update", "delete"}
           /\ ops[i].uid = r.user_id
           /\ ops[i].recId = r.id
           /\ ops[i].calls[Len(ops[i].calls)] = Call(ops[i].req, r.id, r.user_id)]_vars

\* C3 witness: a delete invoked under another user than the owner of the row
\* whose id it carries was applied, and the row is still there.
C3_Witness ==
  \E i \in Slots : \E r \in remote :
    /\ ops[i].kind = "delete" /\ ops[i].pc = "answered" /\ ops[i].status = "ok"
    /\ r.id = ops[i].recId /\ r.user_id # ops[i].uid

\* the write of a save that inserted for a user who owned no row at the lookup
InsertedFresh(o) == o.wrote = "insert" /\ o.fresh

\* the first half of C4: a save whose lookup found no row issues an insert
\* tagged with its userId and no update, and the insert adds one row for that
\* user and touches no other row.
C4_InsertNotUpdate ==
  \A i \in Slots :
    /\ (ops[i].kind = "save" /\ ops[i].req = "lookup" /\ ops[i].fresh
          /\ ~Failed(ops[i]) /\ Resumed(i))
         => /\ ops'[i].req = "insert"
            /\ ops'[i].calls = <<Call("lookup", 0, ops[i].uid), Call("insert", 0, ops[i].uid)>>
    /\ (ops[i].kind = "save" /\ ops[i].fresh /\ Executed(i) /\ ops'[i].status = "ok")
         => /\ remote \subseteq remote'
            /\ \E r \in remote' \ remote :
                 /\ remote' = remote \cup {r}
                 /\ r.user_id = ops[i].uid
                 /\ r.id = ops'[i].wid
    /\ (ops[i].kind = "save" /\ ops[i].fresh /\ ops[i].req # "lookup"
          /\ ~Failed(ops[i]) /\ Resumed(i))
         => ret'.calls = <<Call("lookup", 0, ops[i].uid), Call("insert", 0, ops[i].uid),
                           Call("select", 0, ops[i].uid)>>

C5_UpdateNotInsert ==
  [][\A i \in Slots :
       /\ (ops[i].kind = "save" /\ ops[i].req = "lookup" /\ ~ops[i].fresh
             /\ ~Failed(ops[i]) /\ Resumed(i))
            => /\ ops'[i].req = "update"
               /\ ops'[i].calls[2] = Call("update", ops'[i].recId, ops[i].uid)
       /\ (ops[i].kind = "save" /\ ops[i].req # "lookup" /\ ~ops[i].fresh /\ Executed(i))
            => Cardinality(OwnedBy(remote', ops[i].uid))
                 <= Cardinality(OwnedBy(remote, ops[i].uid))]_vars

\* C6: round trip. A save takes the form values and the useForBoth of the
\* state it is invoked in; when it inserted for a fresh user and its fetch is
\* answered without error (nothing else having changed the table in between),
\* bankDetails carries the four submitted values and the flag, and useForBoth
\* is that flag.
C6_RoundTrip ==
  [][\A i \in Slots :
       /\ (ops[i].kind = "idle" /\ ops'[i].kind = "save")
            => ops'[i].ufb = useForBoth /\ ops'[i].form \in Forms /\ ops'[i].uid = userId
       /\ (ops[i].kind = "fetch" /\ InsertedFresh(ops[i]) /\ ops[i].clean
             /\ ~Failed(ops[i]) /\ Resumed(i))
            => /\ bankDetails'.account_name = ops[i].form.accountName
               /\ bankDetails'.account_number = ops[i].form.accountNumber
               /\ bankDetails'.routing_number = ops[i].form.routingNumber
               /\ bankDetails'.bank_name = ops[i].form.bankName
               /\ bankDetails'.use_for_both = ops[i].ufb
               /\ useForBoth' = ops[i].ufb]_vars

\* C6 witness: a save submitted with useForBoth = true for a fresh user has
\* been fetched back while the checkbox had been cleared meanwhile.
C6_Witness ==
  \E i \in Slots :
    /\ ops[i].kind = "fetch" /\ InsertedFresh(ops[i]) /\ ops[i].clean
    /\ ops[i].pc = "answered" /\ ops[i].status = "ok"
    /\ ops[i].ufb /\ ~useForBoth

\* C7: a delete carries the local record id and the userId of the state it is
\* invoked in; when it succeeds, bankDetails is null and useForBoth false, the
\* one request the invocation issued is that delete, and no fetch follows.
C7_DeleteClears ==
  [][\A i \in Slots :
       /\ (ops[i].kind = "idle" /\ ops'[i].kind = "delete")
            => /\ ops'[i].recId = bankDetails.id
               /\ ops'[i].uid = userId
               /\ ops'[i].calls = <<Call("delete", bankDetails.id, userId)>>
       /\ (ops[i].kind = "delete" /\ ~Failed(ops[i]) /\ Resumed(i))
            => /\ bankDetails' = Null
               /\ useForBoth' = FALSE
               /\ ret' = Ret("delete", "true", <<Call("delete", ops[i].recId, ops[i].uid)>>)
               /\ ops' = [ops EXCEPT ![i] = IdleOp]
               /\ remote' = remote]_vars

\* C7 witness: a delete issued while useForBoth was set has returned true.
C7_Witness ==
  /\ ret.op = "delete" /\ ret.value = "true"
  /\ \A r \in remote : r.id # ret.calls[1].id

\* C8: a fetch whose select fails (error value or exception) leaves bankDetails
\* and useForBoth as they were and emits exactly one error notification.
C8_FetchFailureKeepsState ==
  [][\A i \in Slots :
       (ops[i].kind = "fetch" /\ Failed(ops[i]) /\ Resumed(i))
         => /\ bankDetails' = bankDetails
            /\ useForBoth' = useForBoth
            /\ toasts' = <<"destructive">>]_vars

\* C8 witness: a fetch has failed while a record was loaded and the flag set.
C8_Witness ==
  /\ ret.op = "fetch"
  /\ toasts = <<"destructive">>
  /\ bankDetails # Null
  /\ useForBoth

\* C9: fetch and save invoked with an empty userId, and delete invoked with an
\* empty userId or without a local record id, issue no request, emit no
\* notification, leave bankDetails, useForBoth and isProcessing alone, and save
\* and delete return false.
C9_PreconditionsShortCircuit ==
  [][(\/ userId = NoUser /\ (fetchBankDetails \/ \E f \in Forms : saveBankDetails(f))
      \/ (userId = NoUser \/ bankDetails.id = 0) /\ deleteBankDetails)
       => /\ UNCHANGED <<bankDetails, useForBoth, isProcessing, ops, remote, nextId>>
          /\ toasts' = <<>>
          /\ ret'.calls = <<>>
          /\ ret'.op \in {"fetch", "save", "delete"}
          /\ ret'.op \in {"save", "delete"} => ret'.value = "false"]_vars

\* C9 witness: delete was invoked for a user with no local record and returned
\* false at once.
C9_Witness ==
  /\ ret = Ret("delete", "false", <<>>)
  /\ userId # NoUser
  /\ bankDetails = Null

\* ---- every request is answered and every answered invocation resumes
Fairness ==
  \A i \in Slots :
    /\ WF_vars(ServerExec(i))
    /\ WF_vars(fetchResume(i))
    /\ WF_vars(saveLookupResume(i))
    /\ WF_vars(saveWriteResume(i))
    /\ WF_vars(deleteResume(i))

LiveSpec == Spec /\ Fairness

Busy(i) == ops[i].kind \in {"save", "delete"}

\* C10: isProcessing is false whenever no save or delete is in flight, and
\* (every request being answered) every save and delete invocation returns.
C10_ProcessingCleared ==
  /\ []((\A i \in Slots : ~Busy(i)) => ~isProcessing)
  /\ \A i \in Slots : Busy(i) ~> ~Busy(i)

\* C10 witness: a save has failed at its write and returned, nothing else is in
\* flight and isProcessing is false.
C10_Witness ==
  /\ ret.op = "save" /\ ret.value = "false" /\ Len(ret.calls) = 2
  /\ \A i \in Slots : ~Busy(i)
  /\ ~isProcessing


\* C11: a save whose lookup fails (any error but PGRST116) or whose insert or
\* update fails, and a delete whose remote delete fails, returns false, emits
\* exactly one error notification, leaves bankDetails and useForBoth as they
\* were and triggers no fetch; a save whose lookup failed has issued the lookup
\* and nothing else.
C11_FailureHandling ==
  [][\A i \in Slots :
       (Busy(i) /\ Failed(ops[i]) /\ Resumed(i))
         => /\ ret' = Ret(ops[i].kind, "false", ops[i].calls)
            /\ toasts' = <<"destructive">>
            /\ bankDetails' = bankDetails
            /\ useForBoth' = useForBoth
            /\ ops' = [ops EXCEPT ![i] = IdleOp]
            /\ remote' = remote
            /\ \A k \in 1..Len(ops[i].calls) : ops[i].calls[k].verb # "select"
            /\ ops[i].req = "lookup"
                 => ops[i].calls = <<Call("lookup", 0, ops[i].uid)>>]_vars

\* C11 witness: a save has failed at its lookup and returned false with one
\* error notification, while a record was loaded and the flag set.
C11_Witness ==
  /\ ret.op = "save" /\ ret.value = "false" /\ Len(ret.calls) = 1
  /\ toasts = <<"destructive">>
  /\ bankDetails # Null
  /\ useForBoth
  /\ \A i \in Slots : ops[i].kind # "fetch"


\* the row a save has written: its payload under the id written and its userId
Written(o) == Row(o.wid, o.uid, BankPayload(o.form, o.ufb))

\* C12: the fetch a save triggers is issued in the step in which the save
\* resumes with its insert or update acknowledged without error, never before.
\* When its select is answered without error and returns a record while the row
\* the save wrote is in the table, that record is the row written; when nothing
\* else has touched the table since the write and the row written is the only
\* row of the user, the select does return it; and the fetch loads the record
\* returned into bankDetails and its flag into useForBoth.
C12_RefetchSeesOwnWrite ==
  [][\A i \in Slots :
       /\ (ops'[i].kind = "fetch" /\ ops'[i].wrote # "none" /\ ops[i].kind # "fetch")
            => /\ ops[i].kind = "save" /\ ops[i].req \in {"insert", "update"}
               /\ ops[i].pc = "answered" /\ ops[i].status = "ok"
               /\ ops'[i].pc = "sent"
               /\ ops[i].clean => Written(ops[i]) \in remote
       /\ (ops[i].kind = "fetch" /\ ops[i].wrote # "none" /\ Executed(i)
             /\ ~Failed(ops'[i]))
            => /\ (Written(ops[i]) \in remote /\ ops'[i].data # Null)
                    => ops'[i].data = Written(ops[i])
               /\ ops[i].clean => ops'[i].data = Written(ops[i])
       /\ (ops[i].kind = "fetch" /\ ops[i].wrote # "none" /\ ~Failed(ops[i])
             /\ Resumed(i))
            => /\ ops[i].data # Null
                    => /\ bankDetails' = ops[i].data
                       /\ useForBoth' = ops[i].data.use_for_both
               /\ ops[i].clean
                    => bankDetails' = Written(ops[i]) /\ useForBoth' = ops[i].ufb]_vars

\* C12 witness: a save that updated the user's row with another flag than the
\* loaded one has returned, and its fetch holds the answer, not yet applied.
C12_Witness ==
  \E i \in Slots :
    /\ ops[i].kind = "fetch" /\ ops[i].wrote = "update" /\ ops[i].clean
    /\ ops[i].pc = "answered" /\ ops[i].status = "ok"
    /\ bankDetails.id = ops[i].wid
    /\ bankDetails.use_for_both # ops[i].ufb


\* C13: the hook mounted with a non-empty userId has one fetch for it pending;
\* every change of userId to a non-empty value issues exactly one select, for
\* the new userId, and changes nothing else; every change of userId to the
\* empty value sets bankDetails null and useForBoth false and issues no request.
C13_InitializationCoupling ==
  /\ (userId # NoUser =>
        \E i \in Slots : ops = [j \in Slots |-> IF j = i THEN FetchOp(userId) ELSE IdleOp])
  /\ (userId = NoUser => Quiescent)
  /\ [][userId' # userId =>
          /\ UNCHANGED <<remote, nextId, isProcessing>>
          /\ toasts' = <<>>
          /\ IF userId' # NoUser
               THEN /\ \E i \in Slots :
                         /\ ops[i].kind = "idle"
                         /\ ops' = [ops EXCEPT ![i] = FetchOp(userId')]
                    /\ UNCHANGED <<bankDetails, useForBoth>>
               ELSE /\ bankDetails' = Null
                    /\ useForBoth' = FALSE
                    /\ ops' = ops]_vars

\* C13 witness: the userId has become empty while a save was in flight and a
\* row existed remotely; local state is reset and no fetch was issued.
C13_Witness ==
  /\ userId = NoUser
  /\ called > 0
  /\ ret = NoRet /\ toasts = <<>>
  /\ bankDetails = Null /\ ~useForBoth
  /\ remote # {}
  /\ \E i \in Slots : ops[i].kind = "save" /\ ops[i].pc = "sent"
  /\ \A i \in Slots : ops[i].kind # "fetch"


\* C14: a save is accepted while isProcessing is set, and lookup and write are
\* two requests. When a save whose lookup was answered while its user owned no
\* row has its insert applied after the insert of another such save for the same
\* user, whose row is still there, it inserts all the same and the user owns
\* two rows or more. Conversely a user for whom no two save invocations have
\* ever overlapped owns at most one row.
C14_LookupThenWriteRace ==
  /\ [](\A u \in Users : u \notin overlapped => Cardinality(OwnedBy(remote, u)) <= 1)
  /\ [][\A i \in Slots : \A j \in Slots \ {i} :
          (/\ ops[i].kind = "save" /\ ops[i].fresh /\ ~Failed(ops[i])
           /\ ops[j].uid = ops[i].uid /\ InsertedFresh(ops[j])
           /\ \E r \in OwnedBy(remote, ops[j].uid) : r.id = ops[j].wid)
            => /\ ops[i].uid \in overlapped
               /\ Resumed(i) /\ ops[i].req = "lookup" => ops'[i].req = "insert"
               /\ Executed(i) /\ ~Failed(ops'[i])
                    => /\ ops[i].req = "insert"
                       /\ Cardinality(OwnedBy(remote', ops[i].uid))
                            = Cardinality(OwnedBy(remote, ops[i].uid)) + 1
                       /\ Cardinality(OwnedBy(remote', ops[i].uid)) >= 2]_vars

\* C14 witness: two saves for one user, both looked up while the user owned no
\* row, have both inserted and the user owns the two rows.
C14_Witness ==
  \E i \in Slots : \E j \in Slots \ {i} :
    /\ ops[i].uid = ops[j].uid
    /\ InsertedFresh(ops[i]) /\ InsertedFresh(ops[j])
    /\ ops[i].wid # ops[j].wid
    /\ \E r1 \in remote : \E r2 \in remote :
         /\ r1.id = ops[i].wid /\ r2.id = ops[j].wid
         /\ r1.user_id = ops[i].uid /\ r2.user_id = ops[i].uid
    /\ Cardinality(OwnedBy(remote, ops[i].uid)) = 2


\* C15: whenever a save or delete invocation has passed its precondition check
\* and has not returned yet, isProcessing is true, also when several of them
\* overlap.
C15_ProcessingWhileBusy == (\E i \in Slots : Busy(i)) => isProcessing


\* C16: when deleteBankDetails returns true, the table holds no row with the
\* record id the invocation took from bankDetails, whichever userId that record
\* was loaded under and whatever has happened to it remotely meanwhile.
C16_DeletedRecordGone ==
  [][\A i \in Slots :
       (ops[i].kind = "delete" /\ ~Failed(ops[i]) /\ Resumed(i))
         => /\ ret' = Ret("delete", "true", ops[i].calls)
            /\ \A r \in remote' : r.id # ops[i].recId]_vars


\* C17: a save returns true only after its insert or update was acknowledged
\* without error, and as the table acknowledged that write it held a row owned
\* by the save's userId carrying the four submitted fields and the flag, also
\* when the row was deleted between the save's lookup and its update.
C17_SavedRecordHeld ==
  [][\A i \in Slots :
       /\ (ops[i].kind = "save" /\ Resumed(i) /\ ret'.value = "true")
            => ops[i].req \in {"insert", "update"} /\ ops[i].status = "ok"
       /\ (ops[i].kind = "save" /\ ops[i].req \in {"insert", "update"}
             /\ Executed(i) /\ ~Failed(ops'[i]))
            => \E r \in OwnedBy(remote', ops[i].uid) :
                 r = Row(r.id, ops[i].uid, BankPayload(ops[i].form, ops[i].ufb))]_vars

====
